---- MODULE Spec2Model ----
(***************************************************************************)
(* A model of simple_build.write._git: find_git_root, the GitError class   *)
(* family and GitFolder (construction, run_git and the three file-set      *)
(* queries), together with the parts of the environment the code reads:    *)
(* the directories that hold a ".git" directory, the process's current     *)
(* directory, the state of the handle's working directory, and the         *)
(* answers of the external executable.                                     *)
(*                                                                         *)
(* Text is a sequence of code points, bytes are a sequence of 0..255, a    *)
(* path is [root, parts] as pathlib keeps it (root "" for a relative       *)
(* path), and an optional value is a sequence of length 0 or 1.            *)
(***************************************************************************)
EXTENDS Integers, Sequences, FiniteSets, TLC

VARIABLES
    gitDirs,   \* environment: the absolute directories that hold a ".git" directory
    procCwd,   \* environment: the process's current directory (absolute parts)
    cwdNode,   \* environment: what is at the handle's working directory: "dir" | "missing"
    tool,      \* environment: the answers the external executable may give
    handle,    \* the GitFolder object, <<>> until a construction succeeds
    last,      \* the outcome of the last call on GitFolder, <<>> before the first
    loop       \* find_git_root's own run: its position and its local `path`

vars == <<gitDirs, procCwd, cwdNode, tool, handle, last, loop>>

(* ------------------------------ bounds --------------------------------- *)

MaxDepth == 2      \* directory depth of the modelled file system
MaxRaw == 4        \* length of the raw output in the parsing specification

(* ------------------------------ values --------------------------------- *)

NUL == 0
DOT == 46
SLASH == 47

NameA == <<97>>
NameB == <<98>>
Names == {NameA, NameB}

SeqsUpTo(S, n) == UNION {[1..k -> S] : k \in 0..n}

AbsParts == SeqsUpTo(Names, MaxDepth)

IsPrefix(s, t) == Len(s) <= Len(t) /\ SubSeq(t, 1, Len(s)) = s

AbsPath(parts) == [root |-> "/", parts |-> parts]
RelPath(parts) == [root |-> "", parts |-> parts]

(* ------------------------- the exception classes ----------------------- *)

BaseClassWrong(c) ==
    CASE c = "GitError" -> "Exception"
      [] c = "NotGitRepositoryError" -> "GitError"
      [] c = "GitNotFoundError" -> "NotGitRepositoryError"
      [] c = "FileNotFoundError" -> "OSError"
      [] c = "OSError" -> "Exception"
      [] c = "CalledProcessError" -> "SubprocessError"
      [] c = "SubprocessError" -> "Exception"
      [] c = "UnicodeDecodeError" -> "ValueError"
      [] c = "ValueError" -> "Exception"
      [] OTHER -> "BaseException"

\* class C(B): the base of each class the module defines or meets
BaseClass(c) ==
    CASE c = "GitError" -> "Exception"
      [] c = "NotGitRepositoryError" -> "GitError"
      [] c = "GitNotFoundError" -> "GitError"
      [] c = "FileNotFoundError" -> "OSError"
      [] c = "OSError" -> "Exception"
      [] c = "CalledProcessError" -> "SubprocessError"
      [] c = "SubprocessError" -> "Exception"
      [] c = "UnicodeDecodeError" -> "ValueError"
      [] c = "ValueError" -> "Exception"
      [] OTHER -> "BaseException"

RECURSIVE IsInstance(_, _)
\* `except h:` matches an exception of class c
IsInstance(c, h) ==
    IF c = h THEN TRUE
    ELSE IF c = "BaseException" THEN FALSE
    ELSE IsInstance(BaseClass(c), h)

(* ------------------------------ pathlib -------------------------------- *)

\* Path.parent: lexical; "/" and "." are their own parents
Parent(p) ==
    IF p.parts = <<>> THEN p
    ELSE [p EXCEPT !.parts = SubSeq(p.parts, 1, Len(p.parts) - 1)]

\* The absolute directory a path names for the operating system
Denotes(p) == IF p.root = "" THEN procCwd \o p.parts ELSE p.parts

\* Path(cwd).resolve(): absolute (the file system modelled has no symlinks, no "..")
Resolve(p) == AbsPath(Denotes(p))

\* (path / ".git").is_dir()
HasGitDir(p) == Denotes(p) \in gitDirs

RECURSIVE find_git_root_AtRoot(_)
find_git_root_AtRoot(path) ==
    IF HasGitDir(path) THEN <<path>>
    ELSE IF path = Parent(path) THEN <<path>>
    ELSE find_git_root_AtRoot(Parent(path))

RECURSIVE find_git_root(_)
\* find_git_root: <<root>>, or <<>> for None
find_git_root(path) ==
    IF HasGitDir(path) THEN <<path>>
    ELSE IF path = Parent(path) THEN <<>>
    ELSE find_git_root(Parent(path))

(* ------------------------- bytes and decoding -------------------------- *)

RECURSIVE DecodeFrom(_, _, _)
\* UTF-8 decoding of bs from index i: ASCII and two-byte sequences; a byte that
\* starts no valid sequence becomes U+DC00+byte under surrogateescape and -1
\* (the position of the UnicodeDecodeError) under the strict handler
DecodeFrom(bs, i, escape) ==
    IF i > Len(bs) THEN <<>>
    ELSE IF bs[i] < 128 THEN <<bs[i]>> \o DecodeFrom(bs, i + 1, escape)
    ELSE IF /\ bs[i] >= 194 /\ bs[i] <= 223 /\ i < Len(bs)
            /\ bs[i + 1] >= 128 /\ bs[i + 1] <= 191
         THEN <<(bs[i] - 192) * 64 + (bs[i + 1] - 128)>> \o DecodeFrom(bs, i + 2, escape)
    ELSE <<(IF escape THEN 56320 + bs[i] ELSE -1)>> \o DecodeFrom(bs, i + 1, escape)

\* bytes.decode(): [ok, text]; not ok is UnicodeDecodeError
decode(bs) ==
    LET t == DecodeFrom(bs, 1, FALSE)
    IN  [ok |-> \A i \in 1..Len(t) : t[i] # -1, text |-> t]

\* os.fsdecode(): UTF-8 with surrogateescape, never fails
fsdecode(bs) == DecodeFrom(bs, 1, TRUE)

RECURSIVE LStrip(_, _)
LStrip(bs, c) == IF bs # <<>> /\ Head(bs) = c THEN LStrip(Tail(bs), c) ELSE bs

RECURSIVE RStrip(_, _)
RStrip(bs, c) ==
    IF bs # <<>> /\ bs[Len(bs)] = c THEN RStrip(SubSeq(bs, 1, Len(bs) - 1), c) ELSE bs

\* bytes.strip(c): c removed from both ends
Strip(bs, c) == RStrip(LStrip(bs, c), c)

RECURSIVE SplitFrom(_, _, _)
\* the fields of s from index i on, `cur` being the field under way
SplitFrom(s, c, cur) ==
    IF s = <<>> THEN <<cur>>
    ELSE IF Head(s) = c THEN <<cur>> \o SplitFrom(Tail(s), c, <<>>)
    ELSE SplitFrom(Tail(s), c, Append(cur, Head(s)))

\* bytes.split(c) and str.split(c): always at least one field
Split(s, c) == SplitFrom(s, c, <<>>)

SelectParts(fields) == SelectSeq(fields, LAMBDA f : f # <<>> /\ f # <<DOT>>)

RECURSIVE LeadingCount(_, _)
LeadingCount(s, c) == IF s # <<>> /\ Head(s) = c THEN 1 + LeadingCount(Tail(s), c) ELSE 0

\* PurePosixPath(text): root "/" for an absolute text ("//" for exactly two
\* leading slashes), the components without the empty ones and "."
PurePosixPath(text) ==
    LET n == LeadingCount(text, SLASH)
    IN  [root  |-> IF n = 0 THEN "" ELSE IF n = 2 THEN "//" ELSE "/",
         parts |-> SelectParts(Split(text, SLASH))]

\* a / b: an absolute b replaces a
PathJoin(a, b) ==
    IF b.root # "" THEN b ELSE [root |-> a.root, parts |-> a.parts \o b.parts]

SeqRange(s) == {s[i] : i \in 1..Len(s)}

FileSetNoFilter(cwd, outb) ==
    {PathJoin(cwd, PurePosixPath(fsdecode(loc))) : loc \in SeqRange(Split(Strip(outb, NUL), NUL))}

\* {self.cwd / PurePosixPath(os.fsdecode(loc))
\*  for loc in outb.strip(b"\0").split(b"\0") if loc}
FileSet(cwd, outb) ==
    {PathJoin(cwd, PurePosixPath(fsdecode(loc))) :
        loc \in {l \in SeqRange(Split(Strip(outb, NUL), NUL)) : l # <<>>}}

(* --------------------------- the environment --------------------------- *)

\* The executables the process environment can launch
Installed == {"git"}

\* The git_exec values a handle is constructed with
GitExecs == {"git", "/opt/missing/git"}

\* Answers of a launched executable: exit status, standard output, standard error
Answer(status, stdout, stderr) == [status |-> status, stdout |-> stdout, stderr |-> stderr]

\* "a\0b/a\0", "", and on failure "f!", "e-acute" in UTF-8, and a byte that is no UTF-8
SampleAnswers ==
    {Answer(0, <<97, 0, 98, 47, 97, 0>>, <<>>), Answer(0, <<>>, <<>>),
     Answer(1, <<>>, <<102, 33>>), Answer(128, <<>>, <<195, 169>>),
     Answer(1, <<97, 0>>, <<255>>)}

RawBytes == {NUL, DOT, SLASH, 97, 255}
RawOutputs == SeqsUpTo(RawBytes, MaxRaw)

\* The directories that must exist: those above a ".git" directory or the process
MustBeDir(parts) == \E g \in gitDirs \cup {procCwd} : IsPrefix(parts, g)

(* ------------------------------ GitFolder ------------------------------ *)

NoCall == <<>>

Outcome(op, args, self, spawns, proc, raised, message, returned, outb, files) ==
    [op |-> op, args |-> args, self |-> self, spawns |-> spawns, proc |-> proc,
     raised |-> raised, message |-> message, returned |-> returned,
     outb |-> outb, files |-> files]

NotLaunched == [launched |-> FALSE, status |-> -1, stdout |-> <<>>, stderr |-> <<>>]
Launched(a) == [launched |-> TRUE, status |-> a.status, stdout |-> a.stdout, stderr |-> a.stderr]

\* GitFolder.__init__(cwd, git_exec): [self, raised]; self is <<>> when it raises
GitFolderInit(cwd, git_exec) ==
    LET resolved == Resolve(cwd)
        root == find_git_root(resolved)
    IN  IF root = <<>>
        THEN [self |-> <<>>, raised |-> "NotGitRepositoryError"]
        ELSE [self |-> <<[cwd |-> resolved, root |-> root[1], git_exec |-> git_exec]>>,
              raised |-> ""]

\* subprocess.check_output(command, cwd=..., stderr=PIPE) with the executable
\* answering `a`: one fork; the child changes directory, then executes
check_output(command, cwd, a) ==
    LET spawn == <<[command |-> command, cwd |-> cwd]>>
    IN  IF cwdNode # "dir" \/ command[1] \notin Installed
        THEN [spawns |-> spawn, proc |-> NotLaunched, raised |-> "FileNotFoundError"]
        ELSE IF a.status # 0
        THEN [spawns |-> spawn, proc |-> Launched(a), raised |-> "CalledProcessError"]
        ELSE [spawns |-> spawn, proc |-> Launched(a), raised |-> ""]

NoMessage == <<>>

run_git_Retry(self, op, args, a) ==
    LET command == <<self.git_exec>> \o args
        r == check_output(command, self.cwd, a)
        again == check_output(<<"git">> \o args, self.cwd, a)
    IN  IF IsInstance(r.raised, "FileNotFoundError")
        THEN Outcome(op, args, <<self>>, r.spawns \o again.spawns, again.proc,
                     "GitNotFoundError", NoMessage, FALSE, <<>>, {})
        ELSE IF IsInstance(r.raised, "CalledProcessError")
        THEN IF decode(r.proc.stderr).ok
             THEN Outcome(op, args, <<self>>, r.spawns, r.proc, "GitError",
                          <<[command |-> command, cwd |-> self.cwd,
                             stderr |-> decode(r.proc.stderr).text]>>, FALSE, <<>>, {})
             ELSE Outcome(op, args, <<self>>, r.spawns, r.proc, "UnicodeDecodeError",
                          NoMessage, FALSE, <<>>, {})
        ELSE Outcome(op, args, <<self>>, r.spawns, r.proc, "", NoMessage, TRUE, r.proc.stdout, {})

run_git_WrongClass(self, op, args, a) ==
    LET command == <<self.git_exec>> \o args
        r == check_output(command, self.cwd, a)
    IN  IF r.raised # ""
        THEN Outcome(op, args, <<self>>, r.spawns, r.proc, "GitError",
                     <<[command |-> command, cwd |-> self.cwd, stderr |-> <<>>]>>,
                     FALSE, <<>>, {})
        ELSE Outcome(op, args, <<self>>, r.spawns, r.proc, "", NoMessage, TRUE, r.proc.stdout, {})

run_git_Chdir(self, op, args, a) ==
    LET moved == [self EXCEPT !.cwd = Parent(self.cwd)]
        command == <<self.git_exec>> \o args
        r == check_output(command, moved.cwd, a)
    IN  IF r.raised # ""
        THEN Outcome(op, args, <<moved>>, r.spawns, r.proc, "GitNotFoundError",
                     NoMessage, FALSE, <<>>, {})
        ELSE Outcome(op, args, <<moved>>, r.spawns, r.proc, "", NoMessage, TRUE, r.proc.stdout, {})

\* GitFolder.run_git(*args) called for `op`, the executable answering `a`:
\* the call's outcome (what was spawned, what was raised or returned)
run_git(self, op, args, a) ==
    LET command == <<self.git_exec>> \o args
        r == check_output(command, self.cwd, a)
    IN  IF IsInstance(r.raised, "FileNotFoundError")
        THEN Outcome(op, args, <<self>>, r.spawns, r.proc, "GitNotFoundError",
                     NoMessage, FALSE, <<>>, {})
        ELSE IF IsInstance(r.raised, "CalledProcessError")
        THEN IF decode(r.proc.stderr).ok
             THEN Outcome(op, args, <<self>>, r.spawns, r.proc, "GitError",
                          <<[command |-> command, cwd |-> self.cwd,
                             stderr |-> decode(r.proc.stderr).text]>>, FALSE, <<>>, {})
             ELSE Outcome(op, args, <<self>>, r.spawns, r.proc, "UnicodeDecodeError",
                          NoMessage, FALSE, <<>>, {})
        ELSE Outcome(op, args, <<self>>, r.spawns, r.proc, "", NoMessage, TRUE, r.proc.stdout, {})

\* The body shared by the three queries: run_git, then the set of paths
Query(self, op, args, a) ==
    LET r == run_git(self, op, args, a)
    IN  IF r.raised # "" THEN r ELSE [r EXCEPT !.files = FileSet(self.cwd, r.outb)]

tracked_files(self, a) == Query(self, "tracked_files", <<"ls-files", "--recurse-submodules", "-z">>, a)

new_files(self, a) == Query(self, "new_files", <<"ls-files", "--others", "--exclude-standard", "-z">>, a)

removed_files(self, a) == Query(self, "removed_files", <<"ls-files", "--deleted", "-z">>, a)

(* ------------------------------- actions ------------------------------- *)

\* The cwd arguments of the constructor: absolute, or relative to the process's
\* directory, inside the modelled tree
InputPaths ==
    {AbsPath(q) : q \in AbsParts}
        \cup {RelPath(q) : q \in {x \in AbsParts : Len(procCwd) + Len(x) <= MaxDepth}}

Idle == [pc |-> "off", start |-> RelPath(<<>>), path |-> RelPath(<<>>), result |-> <<>>]

\* GitFolder(cwd, git_exec); the state of the directory at cwd is the environment's
Construct ==
    /\ handle = <<>>
    /\ \E cwd \in InputPaths, git_exec \in GitExecs, node \in {"dir", "missing"} :
          LET r == GitFolderInit(cwd, git_exec)
          IN  /\ node = "missing" => ~MustBeDir(Denotes(cwd))
              /\ handle' = r.self
              /\ cwdNode' = node
              /\ last' = <<Outcome("__init__", <<cwd, git_exec>>, r.self, <<>>, NotLaunched, r.raised,
                                   NoMessage, r.raised = "", <<>>, {})>>
    /\ UNCHANGED <<gitDirs, procCwd, tool, loop>>

Call(r) ==
    /\ handle' = r.self
    /\ last' = <<r>>
    /\ UNCHANGED <<gitDirs, procCwd, cwdNode, tool, loop>>

RunGit ==
    /\ handle # <<>>
    /\ \E a \in tool : Call(run_git(handle[1], "run_git", <<"status", "-z">>, a))

TrackedFiles ==
    /\ handle # <<>>
    /\ \E a \in tool : Call(tracked_files(handle[1], a))

NewFiles ==
    /\ handle # <<>>
    /\ \E a \in tool : Call(new_files(handle[1], a))

RemovedFiles ==
    /\ handle # <<>>
    /\ \E a \in tool : Call(removed_files(handle[1], a))

\* The environment removes the handle's working directory, or creates it
RemoveCwd ==
    /\ handle # <<>>
    /\ cwdNode = "dir"
    /\ ~MustBeDir(handle[1].cwd.parts)
    /\ cwdNode' = "missing"
    /\ UNCHANGED <<gitDirs, procCwd, tool, handle, last, loop>>

CreateCwd ==
    /\ handle # <<>>
    /\ cwdNode = "missing"
    /\ cwdNode' = "dir"
    /\ UNCHANGED <<gitDirs, procCwd, tool, handle, last, loop>>

RepoSets == {{}} \cup {{x, y} : x, y \in AbsParts}

ProcCwds == {<<>>} \cup {<<n>> : n \in Names}

Init ==
    /\ gitDirs \in RepoSets
    /\ procCwd \in ProcCwds
    /\ cwdNode = "dir"
    /\ tool = SampleAnswers
    /\ handle = <<>>
    /\ last = NoCall
    /\ loop = Idle

Next ==
    \/ Construct
    \/ RunGit
    \/ TrackedFiles
    \/ NewFiles
    \/ RemovedFiles
    \/ RemoveCwd
    \/ CreateCwd

Spec == Init /\ [][Next]_vars

(* ------------------- find_git_root, one iteration a step --------------- *)

InitLocate ==
    /\ gitDirs \in RepoSets
    /\ procCwd \in ProcCwds
    /\ cwdNode = "dir"
    /\ tool = SampleAnswers
    /\ handle = <<>>
    /\ last = NoCall
    /\ \E p \in InputPaths : loop = [pc |-> "while", start |-> p, path |-> p, result |-> <<>>]

\* while not (path / ".git").is_dir(): ... left with the marker found
LoopFound ==
    /\ loop.pc = "while"
    /\ HasGitDir(loop.path)
    /\ loop' = [loop EXCEPT !.pc = "done", !.result = <<loop.path>>]
    /\ UNCHANGED <<gitDirs, procCwd, cwdNode, tool, handle, last>>

\* if path == path.parent: return None
LoopAtRoot ==
    /\ loop.pc = "while"
    /\ ~HasGitDir(loop.path)
    /\ loop.path = Parent(loop.path)
    /\ loop' = [loop EXCEPT !.pc = "done", !.result = <<>>]
    /\ UNCHANGED <<gitDirs, procCwd, cwdNode, tool, handle, last>>

\* path = path.parent
LoopUp ==
    /\ loop.pc = "while"
    /\ ~HasGitDir(loop.path)
    /\ loop.path # Parent(loop.path)
    /\ loop' = [loop EXCEPT !.path = Parent(loop.path)]
    /\ UNCHANGED <<gitDirs, procCwd, cwdNode, tool, handle, last>>

NextLocate == LoopFound \/ LoopAtRoot \/ LoopUp

SpecLocate == InitLocate /\ [][NextLocate]_vars

(* ------------- the queries on every raw output of the executable -------- *)

ParseCwds == {<<>>, <<NameA>>, <<NameA, NameB>>}

InitParse ==
    /\ gitDirs = {<<>>}
    /\ procCwd = <<>>
    /\ cwdNode = "dir"
    /\ \E raw \in RawOutputs : tool = {Answer(0, raw, <<>>)}
    /\ \E c \in ParseCwds : handle = GitFolderInit(AbsPath(c), "git").self
    /\ last = NoCall
    /\ loop = Idle

NextParse == TrackedFiles \/ NewFiles \/ RemovedFiles

SpecParse == InitParse /\ [][NextParse]_vars

(* ------------------------------- claims -------------------------------- *)

\* The directories holding the marker that are `parts` or above it
RepoAncestors(parts) == {g \in gitDirs : IsPrefix(g, parts)}

Nearest(parts) ==
    CHOOSE g \in RepoAncestors(parts) : \A h \in RepoAncestors(parts) : Len(h) <= Len(g)

IsQuery(r) == r.op \in {"run_git", "tracked_files", "new_files", "removed_files"}

\* C1: when find_git_root has returned, the result is the nearest directory at or
\* above the start path that holds the marker, and None when there is none.
C1_LocateNearest ==
    loop.pc = "done" =>
        LET target == Denotes(loop.start)
        IN  IF RepoAncestors(target) = {}
            THEN loop.result = <<>>
            ELSE loop.result # <<>> /\ Denotes(loop.result[1]) = Nearest(target)

\* C2: a construction on a working directory with no marker at or above it raises
\* NotGitRepositoryError, no other class, and leaves no handle.
C2_NoRepositoryFails ==
    (last # NoCall /\ last[1].op = "__init__"
        /\ RepoAncestors(Denotes(last[1].args[1])) = {})
    => (last[1].raised = "NotGitRepositoryError" /\ ~last[1].returned /\ handle = <<>>)

C2_Witness ==
    /\ last # NoCall /\ last[1].op = "__init__"
    /\ last[1].args[1].root = "" /\ last[1].args[1].parts # <<>>
    /\ gitDirs # {}
    /\ last[1].raised = "NotGitRepositoryError"
    /\ handle = <<>>

C4_CommandFailed ==
    (last # NoCall /\ IsQuery(last[1]) /\ last[1].proc.launched /\ last[1].proc.status # 0)
    => /\ last[1].raised = "GitError"
       /\ last[1].message # <<>>
       /\ last[1].message[1].command = <<handle[1].git_exec>> \o last[1].args
       /\ last[1].message[1].cwd = handle[1].cwd
       /\ last[1].message[1].stderr = fsdecode(last[1].proc.stderr)

\* The non-empty records of raw: its maximal runs of bytes other than NUL
Records(raw) ==
    {SubSeq(raw, i, j) : <<i, j>> \in
        {ij \in (1..Len(raw)) \X (1..Len(raw)) :
            /\ ij[1] <= ij[2]
            /\ \A k \in ij[1]..ij[2] : raw[k] # NUL
            /\ (ij[1] = 1 \/ raw[ij[1] - 1] = NUL)
            /\ (ij[2] = Len(raw) \/ raw[ij[2] + 1] = NUL)}}

\* C5: after a successful run a query returns exactly the set of the working
\* directory joined with each non-empty NUL-separated record of the raw output;
\* an empty raw output gives the empty set.
C5_FileSetOfRecords ==
    (last # NoCall /\ last[1].op \in {"tracked_files", "new_files", "removed_files"})
    => /\ last[1].returned
       /\ last[1].files =
            {PathJoin(handle[1].cwd, PurePosixPath(fsdecode(rec))) :
                rec \in Records(last[1].proc.stdout)}
       /\ (last[1].proc.stdout = <<>> => last[1].files = {})

C5_Witness ==
    /\ last # NoCall /\ last[1].op = "removed_files"
    /\ last[1].proc.stdout = <<97, NUL, 97, NUL>>
    /\ handle[1].cwd.parts = <<NameA>>
    /\ last[1].files = {AbsPath(<<NameA, NameA>>)}

\* The class each error kind is raised as
KindClasses == {"NotGitRepositoryError", "GitNotFoundError", "GitError"}

\* C6 as stated: a failure raised as one kind is matched by no other kind's branch.
C6_PairwiseDisjoint ==
    (last # NoCall /\ last[1].raised \in KindClasses)
    => \A k \in KindClasses \ {last[1].raised} : ~IsInstance(last[1].raised, k)

\* C6 as amended: the branches for NotGitRepositoryError and GitNotFoundError match
\* only failures of their own kind, and the branch for GitError, the class
\* CommandFailed is raised as, matches failures of all three kinds.
C6_SpecificKindsDisjoint ==
    (last # NoCall /\ last[1].raised \in KindClasses)
    => /\ IsInstance(last[1].raised, "GitError")
       /\ \A k \in {"NotGitRepositoryError", "GitNotFoundError"} :
             IsInstance(last[1].raised, k) <=> last[1].raised = k

C6_Witness ==
    /\ last # NoCall
    /\ last[1].raised = "GitNotFoundError"
    /\ IsInstance(last[1].raised, "GitError")
    /\ ~IsInstance(last[1].raised, "NotGitRepositoryError")

\* C7: a handle's root is its working directory or above it, a new handle holds the
\* resolved cwd and the git_exec it was constructed with, and no call changes a handle.
C7_HandleFixed ==
    /\ [](handle # <<>> =>
            /\ handle[1].root.root = handle[1].cwd.root
            /\ IsPrefix(handle[1].root.parts, handle[1].cwd.parts)
            /\ (last[1].op = "__init__" =>
                    /\ handle[1].cwd = Resolve(last[1].args[1])
                    /\ handle[1].git_exec = last[1].args[2]))
    /\ [][handle # <<>> => handle' = handle]_vars

C7_Witness ==
    /\ handle # <<>>
    /\ handle[1].root # handle[1].cwd
    /\ last[1].op = "new_files"
    /\ last[1].raised # ""

\* C8: every call of run_git or of a query spawns exactly once, the configured
\* command in the handle's working directory; it returns only when that process
\* exited with status zero, and when it raises it returns nothing.
C8_OneSpawn ==
    (last # NoCall /\ IsQuery(last[1]))
    => /\ Len(last[1].spawns) = 1
       /\ last[1].spawns[1].cwd = handle[1].cwd
       /\ last[1].spawns[1].command = <<handle[1].git_exec>> \o last[1].args
       /\ last[1].returned <=> last[1].raised = ""
       /\ last[1].returned => (last[1].proc.launched /\ last[1].proc.status = 0)
       /\ ~last[1].returned => (last[1].files = {} /\ last[1].outb = <<>>)

C8_Witness ==
    /\ last # NoCall /\ last[1].op = "tracked_files"
    /\ last[1].proc.launched /\ last[1].proc.status # 0
    /\ last[1].proc.stdout # <<>>
    /\ last[1].raised # ""
    /\ last[1].files = {}

\* C10: a call raises GitNotFoundError only when the configured executable cannot
\* be found.
C10_OnlyMissingExecutable ==
    (last # NoCall /\ IsQuery(last[1]) /\ last[1].raised = "GitNotFoundError")
    => handle[1].git_exec \notin Installed

====
